---- MODULE Spec2Model ----
(***************************************************************************)
(* salesperson.py: an in-memory SQLite database driven through SQLAlchemy. *)
(* The script creates the table salesperson, inserts rows inside a         *)
(* transaction, reads one row back with fetchone, and projects a full      *)
(* SELECT into a list of dicts through an accumulator loop and then a      *)
(* comprehension over the same result cursor.                              *)
(*                                                                         *)
(* Spec        runs the statements top to bottom, as the file does.        *)
(* SpecSession runs the statements of lines 3-21 one at a time in any      *)
(*             order, as an interactive session that evaluates them does   *)
(*             (the file is a transcript of such a session: it consists of *)
(*             bare expressions such as row[0] with their echoed values).  *)
(*                                                                         *)
(* Rows are tuples <<id, name>>, so Python's row[0] is row[1] here.        *)
(* A dict is a function from column names to values; dicts live in a heap  *)
(* and d and the entries of a are addresses into it, so that object        *)
(* identity is part of the state.                                          *)
(***************************************************************************)
EXTENDS Integers, Sequences, FiniteSets

VARIABLES
    pc,           \* the statement the script executes next ("repl" in a session)
    last,         \* the statement executed last
    err,          \* the exception the last statement raised, "none" if none
    tableExists,  \* the salesperson table exists in the database
    table,        \* the rows of salesperson as the connection sees them, by rowid
    committed,    \* the rows of salesperson as of the last commit
    conn,         \* the name conn: "unopened", "open" or "closed"
    trans,        \* the transaction of conn.begin(): "none", "active", "committed", "rolledback"
    names,        \* the names of the VALUES list of the INSERT
    row,          \* the name row
    resultproxy,  \* the result cursor: the rows of the query and the fetch position
    rowproxy,     \* the loop variable of the for loop
    items,        \* the columns of rowproxy.items() the inner loop has not yet visited
    heap,         \* the dict objects allocated so far, by address
    d,            \* the address the name d refers to, 0 while unbound
    a,            \* the list a: a sequence of addresses
    comp          \* the value of the comprehension of line 33

vars == <<pc, last, err, tableExists, table, committed, conn, trans, names,
          row, resultproxy, rowproxy, items, heap, d, a, comp>>

dbVars   == <<tableExists, table, committed>>
loopVars == <<resultproxy, rowproxy, items, heap, d, a, comp>>

(***************************************************************************)
(* Bounds                                                                  *)
(***************************************************************************)
MaxNames == 3
MaxRows == 4

NameSet == {"John Doe", "Margaret", "Anna"}
Literal == <<"John Doe", "Margaret", "Anna">>
Columns == <<"id", "name">>
None == <<>>
Unbound == <<"unbound">>

NameLists == UNION {[1..n -> NameSet] : n \in 1..MaxNames}

(***************************************************************************)
(* The backend: SQLite behind one shared DBAPI connection                  *)
(***************************************************************************)
RECURSIVE MaxId(_)
MaxId(t) == IF t = <<>> THEN 0
            ELSE LET m == MaxId(Tail(t)) IN IF Head(t)[1] > m THEN Head(t)[1] ELSE m

\* As InsertRows, but every row of the statement gets the same id.
InsertRows_sameId(t, ns) ==
    t \o [i \in 1..Len(ns) |-> <<MaxId(t) + 1, ns[i]>>]

\* INSERT INTO salesperson (name) VALUES (...), ...: ids are left to the
\* backend, which gives each new row the largest rowid so far plus one.
InsertRows(t, ns) ==
    t \o [i \in 1..Len(ns) |-> <<MaxId(t) + i, ns[i]>>]

\* As SelectAll, but the scan runs from the largest rowid down.
SelectAll_descending(t) == [i \in 1..Len(t) |-> t[Len(t) + 1 - i]]

\* SELECT * FROM salesperson: a table scan, which SQLite walks in rowid order.
SelectAll(t) == t

\* SELECT * FROM salesperson LIMIT 1, then fetchone().
SelectFirst(t) == IF SelectAll(t) = <<>> THEN None ELSE Head(SelectAll(t))

(***************************************************************************)
(* Statements of the file.  Each sets last and err and leaves pc to the    *)
(* specification that runs it.  An exception is recorded in err; nothing   *)
(* in the file catches one.                                                *)
(***************************************************************************)

\* As CreateTable, but with the semantics of CREATE TABLE IF NOT EXISTS.
CreateTable_ifNotExists ==
    /\ last' = "create"
    /\ err' = "none"
    /\ tableExists' = TRUE
    /\ UNCHANGED <<table, committed>>
    /\ UNCHANGED <<conn, trans, names, row>>

\* Lines 3-6: engine.execute('CREATE TABLE "salesperson" (...)').  The
\* statement has no IF NOT EXISTS; DDL run through the engine autocommits.
CreateTable ==
    /\ last' = "create"
    /\ IF tableExists
       THEN /\ err' = "TableExists"
            /\ UNCHANGED dbVars
       ELSE /\ err' = "none"
            /\ tableExists' = TRUE
            /\ table' = <<>>
            /\ committed' = <<>>
    /\ UNCHANGED <<conn, trans, names, row>>

\* Line 9: engine.table_names(); the value is discarded.
TableNames ==
    /\ last' = "table_names"
    /\ err' = "none"
    /\ UNCHANGED <<dbVars, conn, trans, names, row>>

\* Line 12: conn = engine.connect()
Connect ==
    /\ last' = "connect"
    /\ err' = "none"
    /\ conn' = "open"
    /\ UNCHANGED <<dbVars, trans, names, row>>

\* Line 13: trans = conn.begin()
Begin ==
    /\ last' = "begin"
    /\ IF conn # "open"
       THEN err' = "NameError" /\ UNCHANGED trans
       ELSE err' = "none" /\ trans' = "active"
    /\ UNCHANGED <<dbVars, conn, names, row>>

\* As Insert, but the rows are stored whether or not the table was created.
Insert_unchecked(ns) ==
    /\ last' = "insert"
    /\ names' = ns
    /\ IF conn # "open"
       THEN err' = "NameError" /\ UNCHANGED dbVars
       ELSE /\ err' = "none"
            /\ table' = InsertRows(table, ns)
            /\ committed' = IF trans = "active" THEN committed ELSE table'
            /\ UNCHANGED tableExists
    /\ UNCHANGED <<conn, trans, row>>

\* Lines 14-15: conn.execute('INSERT INTO "salesperson" (name) VALUES ...').
\* The statement is atomic in the backend.  Outside a transaction the
\* connection autocommits it; inside one it stays pending.  When it raises
\* inside a transaction the transaction is left as it is: the file has no
\* except clause and no call of trans.rollback().
Insert(ns) ==
    /\ last' = "insert"
    /\ names' = ns
    /\ IF conn # "open"
       THEN err' = "NameError" /\ UNCHANGED dbVars
       ELSE IF ~tableExists
       THEN err' = "NoSuchTable" /\ UNCHANGED dbVars
       ELSE /\ err' = "none"
            /\ table' = InsertRows(table, ns)
            /\ committed' = IF trans = "active" THEN committed ELSE table'
            /\ UNCHANGED tableExists
    /\ UNCHANGED <<conn, trans, row>>

\* Line 16: trans.commit()
Commit ==
    /\ last' = "commit"
    /\ IF trans = "none"
       THEN err' = "NameError" /\ UNCHANGED <<trans, committed>>
       ELSE IF trans # "active"
       THEN err' = "InactiveTransaction" /\ UNCHANGED <<trans, committed>>
       ELSE /\ err' = "none"
            /\ trans' = "committed"
            /\ committed' = table
    /\ UNCHANGED <<tableExists, table, conn, names, row>>

\* As FetchOne, but an empty result raises, as a one()-style fetch does.
FetchOne_raising ==
    /\ last' = "fetchone"
    /\ IF conn # "open"
       THEN err' = "NameError" /\ UNCHANGED row
       ELSE IF ~tableExists
       THEN err' = "NoSuchTable" /\ UNCHANGED row
       ELSE IF SelectFirst(table) = None
       THEN err' = "NoResultFound" /\ UNCHANGED row
       ELSE err' = "none" /\ row' = SelectFirst(table)
    /\ UNCHANGED <<dbVars, conn, trans, names>>

\* As FetchOne, but a missing table reads as an empty one.
FetchOne_unchecked ==
    /\ last' = "fetchone"
    /\ IF conn # "open"
       THEN err' = "NameError" /\ UNCHANGED row
       ELSE err' = "none" /\ row' = SelectFirst(table)
    /\ UNCHANGED <<dbVars, conn, trans, names>>

\* Line 19: row = conn.execute('SELECT * FROM salesperson LIMIT 1').fetchone()
FetchOne ==
    /\ last' = "fetchone"
    /\ IF conn # "open"
       THEN err' = "NameError" /\ UNCHANGED row
       ELSE IF ~tableExists
       THEN err' = "NoSuchTable" /\ UNCHANGED row
       ELSE err' = "none" /\ row' = SelectFirst(table)
    /\ UNCHANGED <<dbVars, conn, trans, names>>

\* Lines 20-21: row[0] and row[1]; the values are discarded.
RowIndex ==
    /\ last' = "rowindex"
    /\ err' = IF row = Unbound THEN "NameError"
              ELSE IF row = None THEN "TypeError"
              ELSE "none"
    /\ UNCHANGED <<dbVars, conn, trans, names, row>>

(***************************************************************************)
(* Lines 23-33: the result cursor and the two projections                  *)
(***************************************************************************)

\* A result cursor: the rows of the query and how many have been fetched.
Cursor(rows) == [rows |-> rows, pos |-> 0]

\* The rows a cursor still yields: a ResultProxy is read once, front to back.
Unfetched(rp) == SubSeq(rp.rows, rp.pos + 1, Len(rp.rows))

\* As Iterate, but the iteration starts over from the first row.
Iterate_restart(rp) == rp.rows

\* iter(resultproxy): the rows a new iteration over the cursor yields.  It
\* fetches from where the cursor stands; an exhausted cursor yields nothing.
Iterate(rp) == Unfetched(rp)

\* rowproxy.items(): the value of a column of a row
Value(r, column) == IF column = "id" THEN r[1] ELSE r[2]

\* {column: value for column, value in rowproxy.items()}
RowDict(r) == [column \in {"id", "name"} |-> Value(r, column)]

\* {**m, **{column: value}}
Merge(m, column, value) ==
    [k \in DOMAIN m \cup {column} |-> IF k = column THEN value ELSE m[k]]

\* As Rebind, but the dict d refers to is updated in place (d[column] = value).
Rebind_inPlace(h, addr, column, value) ==
    <<[h EXCEPT ![addr] = Merge(h[addr], column, value)], addr>>

\* Line 30: d = {**d, **{column:value}} builds a new dict object and rebinds
\* d to it.  The result is <<heap', d'>>.
Rebind(h, addr, column, value) ==
    <<Append(h, Merge(h[addr], column, value)), Len(h) + 1>>

\* Line 23: resultproxy = conn.execute('SELECT * FROM salesperson')
Select ==
    /\ last' = "select"
    /\ IF conn # "open"
       THEN err' = "NameError" /\ UNCHANGED resultproxy
       ELSE IF ~tableExists
       THEN err' = "NoSuchTable" /\ UNCHANGED resultproxy
       ELSE err' = "none" /\ resultproxy' = Cursor(SelectAll(table))
    /\ UNCHANGED <<dbVars, conn, trans, names, row, rowproxy, items, heap, d, a, comp>>

\* Line 26: d, a = {}, []
InitDA ==
    /\ last' = "init_da"
    /\ err' = "none"
    /\ heap' = Append(heap, <<>>)
    /\ d' = Len(heap) + 1
    /\ a' = <<>>
    /\ UNCHANGED <<dbVars, conn, trans, names, row, resultproxy, rowproxy, items, comp>>

\* Line 27: for rowproxy in resultproxy
ForNext ==
    /\ last' = "for"
    /\ err' = "none"
    /\ IF Unfetched(resultproxy) = <<>>
       THEN /\ pc' = "comp"
            /\ UNCHANGED <<resultproxy, rowproxy, items>>
       ELSE /\ pc' = "inner"
            /\ rowproxy' = Head(Unfetched(resultproxy))
            /\ resultproxy' = [resultproxy EXCEPT !.pos = @ + 1]
            /\ items' = Columns
    /\ UNCHANGED <<dbVars, conn, trans, names, row, heap, d, a, comp>>

\* Lines 28-30: for column, value in rowproxy.items(): print(d); d = {**d, ...}
Inner ==
    /\ last' = "inner"
    /\ err' = "none"
    /\ IF items = <<>>
       THEN /\ pc' = "append"
            /\ UNCHANGED <<items, heap, d>>
       ELSE /\ pc' = "inner"
            /\ heap' = Rebind(heap, d, Head(items), Value(rowproxy, Head(items)))[1]
            /\ d' = Rebind(heap, d, Head(items), Value(rowproxy, Head(items)))[2]
            /\ items' = Tail(items)
    /\ UNCHANGED <<dbVars, conn, trans, names, row, resultproxy, rowproxy, a, comp>>

\* Line 31: a.append(d)
AppendD ==
    /\ last' = "append"
    /\ err' = "none"
    /\ a' = Append(a, d)
    /\ pc' = "for"
    /\ UNCHANGED <<dbVars, conn, trans, names, row, resultproxy, rowproxy, items, heap, d, comp>>

\* Line 33: [{column:value for ...} for rowproxy in resultproxy]
Comprehension ==
    /\ last' = "comp"
    /\ err' = "none"
    /\ comp' = [i \in 1..Len(Iterate(resultproxy)) |-> RowDict(Iterate(resultproxy)[i])]
    /\ resultproxy' = [resultproxy EXCEPT !.pos = Len(resultproxy.rows)]
    /\ pc' = "done"
    /\ UNCHANGED <<dbVars, conn, trans, names, row, rowproxy, items, heap, d, a>>

(***************************************************************************)
(* Spec: the file run top to bottom                                        *)
(***************************************************************************)

\* The state before line 1 has run: a new in-memory database, every name
\* unbound.  The VALUES list of line 15 is one of NameLists.
Fresh ==
    /\ last = "start"
    /\ err = "none"
    /\ tableExists = FALSE
    /\ table = <<>>
    /\ committed = <<>>
    /\ conn = "unopened"
    /\ trans = "none"
    /\ row = Unbound
    /\ resultproxy = Cursor(<<>>)
    /\ rowproxy = None
    /\ items = <<>>
    /\ heap = <<>>
    /\ d = 0
    /\ a = <<>>
    /\ comp = <<>>

Init ==
    /\ Fresh
    /\ pc = "create"
    /\ names \in NameLists

\* An uncaught exception ends the script; otherwise the next statement runs.
Then(next) == pc' = IF err' # "none" THEN "raised" ELSE next

Line3  == pc = "create"      /\ CreateTable /\ Then("table_names") /\ UNCHANGED loopVars
Line9  == pc = "table_names" /\ TableNames  /\ Then("connect")     /\ UNCHANGED loopVars
Line12 == pc = "connect"     /\ Connect     /\ Then("begin")       /\ UNCHANGED loopVars
Line13 == pc = "begin"       /\ Begin       /\ Then("insert")      /\ UNCHANGED loopVars
Line14 == pc = "insert"      /\ Insert(names) /\ Then("commit")    /\ UNCHANGED loopVars
Line16 == pc = "commit"      /\ Commit      /\ Then("fetchone")    /\ UNCHANGED loopVars
Line19 == pc = "fetchone"    /\ FetchOne    /\ Then("row0")        /\ UNCHANGED loopVars
Line20 == pc = "row0"        /\ RowIndex    /\ Then("row1")        /\ UNCHANGED loopVars
Line21 == pc = "row1"        /\ RowIndex    /\ Then("select")      /\ UNCHANGED loopVars
Line23 == pc = "select"      /\ Select      /\ Then("init_da")
Line26 == pc = "init_da"     /\ InitDA      /\ Then("for")
Line27 == pc = "for"         /\ ForNext
Line28 == pc = "inner"       /\ Inner
Line31 == pc = "append"      /\ AppendD
Line33 == pc = "comp"        /\ Comprehension

Next ==
    \/ Line3 \/ Line9 \/ Line12 \/ Line13 \/ Line14 \/ Line16 \/ Line19
    \/ Line20 \/ Line21 \/ Line23 \/ Line26 \/ Line27 \/ Line28 \/ Line31 \/ Line33

Spec == Init /\ [][Next]_vars

(***************************************************************************)
(* SpecSession: the statements of lines 3-21 evaluated one at a time       *)
(***************************************************************************)
SessionInit ==
    /\ Fresh
    /\ pc = "repl"
    /\ names = <<>>

Repl == pc = "repl" /\ UNCHANGED <<pc, loopVars>>

Eval3  == Repl /\ CreateTable
\* conn and trans are bound once: connecting again or beginning inside an
\* active transaction is not followed here.
Eval12 == Repl /\ conn = "unopened" /\ Connect
Eval13 == Repl /\ trans # "active" /\ Begin
Eval14 == Repl /\ \E ns \in NameLists : Len(table) + Len(ns) <= MaxRows /\ Insert(ns)
Eval16 == Repl /\ Commit
Eval19 == Repl /\ FetchOne
Eval20 == Repl /\ RowIndex

NextSession ==
    \/ Eval3 \/ Eval12 \/ Eval13 \/ Eval14 \/ Eval16 \/ Eval19 \/ Eval20

SpecSession == SessionInit /\ [][NextSession]_vars

(***************************************************************************)
(* Properties                                                              *)
(***************************************************************************)
Count(x, seq) == Cardinality({i \in 1..Len(seq) : seq[i] = x})

DistinctIds(t) == \A i, j \in 1..Len(t) : i # j => t[i][1] # t[j][1]

\* The dicts the entries of a refer to
Mappings == [i \in 1..Len(a) |-> heap[a[i]]]

LoopEnded == pc \in {"comp", "done"}

\* C1 (SpecSession): an INSERT that raises inside a begun transaction leaves
\* the transaction rolled back and the table as it was; a successful one
\* keeps all its rows pending until the commit makes them visible together.
ClaimC1 ==
    /\ (last = "insert" /\ err # "none" /\ trans \in {"active", "rolledback"})
          => trans = "rolledback"
    /\ (last = "insert" /\ err = "none" /\ trans = "active")
          => Len(committed) + Len(names) <= Len(table)
    /\ (last = "commit" /\ err = "none") => committed = table

\* C2 (Spec): after the committed insert of names, the accumulator loop has
\* produced Len(names) mappings on top of the none there were before, each
\* name occurs among them as often as in names, the ids of the stored rows
\* are pairwise distinct, and they are the ones the backend chose (1, 2, ...
\* on the new table), the statement having supplied names only.
ThmC2 ==
    LoopEnded =>
        /\ Len(Mappings) = Len(names)
        /\ \A n \in NameSet :
              Count(n, [i \in 1..Len(a) |-> Mappings[i]["name"]]) = Count(n, names)
        /\ DistinctIds(table)
        /\ \A i, j \in 1..Len(a) : i # j => Mappings[i]["id"] # Mappings[j]["id"]
        /\ {Mappings[i]["id"] : i \in 1..Len(a)} = 1..Len(names)

WitC2 ==
    /\ pc = "done"
    /\ Len(names) >= 2
    /\ names[1] = names[2]
    /\ Len(a) = Len(names)
    /\ committed = table

\* C3 (SpecSession): an INSERT on an open connection before the table was
\* created raises the no-such-table error, and no rows are visible or
\* committed afterwards; the table still does not exist.
ThmC3 ==
    (last = "insert" /\ conn = "open" /\ ~tableExists)
        => (err = "NoSuchTable" /\ table = <<>> /\ committed = <<>>)

WitC3 ==
    /\ last = "insert"
    /\ conn = "open"
    /\ trans = "active"
    /\ ~tableExists
    /\ err = "NoSuchTable"

\* C4 (SpecSession): CREATE TABLE run when the table already exists raises
\* the table-exists error and leaves the rows as they were.
ThmC4 ==
    [][(last' = "create" /\ tableExists)
          => (err' = "TableExists" /\ table' = table /\ committed' = committed
              /\ tableExists')]_vars

WitC4 ==
    /\ last = "create"
    /\ err = "TableExists"
    /\ conn = "open"
    /\ table # <<>>

\* C5 (SpecSession): fetchone on the existing table raises nothing; it gives
\* None when the table is empty and one of the stored rows otherwise.
ThmC5 ==
    (last = "fetchone" /\ conn = "open" /\ tableExists) =>
        /\ err = "none"
        /\ table = <<>> => row = None
        /\ table # <<>> => \E i \in 1..Len(table) : row = table[i]

WitC5 ==
    /\ last = "fetchone"
    /\ conn = "open"
    /\ tableExists
    /\ table = <<>>
    /\ row = None
    /\ err = "none"

\* A change made through one entry of a: the object at addr gets another name
Mutated(h, addr) == [h EXCEPT ![addr] = Merge(@, "name", "changed")]

ClaimC7 == pc \in {"done", "raised"} => conn = "closed"

\* The lifecycle state of the store
Lifecycle ==
    IF conn = "closed" THEN "Closed"
    ELSE IF tableExists THEN "SchemaReady"
    ELSE "Open"

ThmC9 ==
    (names = Literal /\ row # Unbound) => (row[1] = 1 /\ row[2] = "John Doe")

WitC9 ==
    /\ names = Literal
    /\ last = "fetchone"
    /\ committed = InsertRows(<<>>, Literal)
    /\ row = <<1, "John Doe">>

\* C10 (Spec): the comprehension that follows the accumulator loop over the
\* same cursor is the empty list, however many rows the table holds.
ThmC10 == pc = "done" => comp = <<>>

WitC10 ==
    /\ pc = "done"
    /\ Len(table) >= 2
    /\ Len(a) = Len(table)
    /\ comp = <<>>

====
